---- MODULE Spec2Model ----
(***************************************************************************)
(* DigiNotes AI (ESV43/HANDY).                                             *)
(*                                                                         *)
(* The state machines modelled:                                            *)
(*   Spec     the App component: upload list, format toggle, convert       *)
(*            action and the per-file conversion tasks it launches;        *)
(*   SpecPdf  generatePdf: the paginating layout of one Document Model     *)
(*            (SpecPdfNonFinite: one with a diagram of non-finite size);   *)
(*   SpecSvg  the aspect-ratio inference of a diagram block;               *)
(*   SpecImg  convertPdfToImages: the page loop over one source PDF.       *)
(***************************************************************************)
EXTENDS Integers, Sequences, FiniteSets, TLC

(***************************************************************************)
(* Bounds                                                                  *)
(***************************************************************************)
MaxFiles == 2
MaxSelect == 2
MaxPages == 1
MaxDocPages == 3

MaxBlocks == 3
MaxRuns == 2
MaxAttrs == 3

VARIABLES files, outputFormat, isProcessing, tasks, lastDownload

VARIABLES data, idx, yPos, pageCount, font, textColor, originalFont, drawn,
          rpc, run, prevDrawn, prevPages

pdfVars == <<data, idx, yPos, pageCount, font, textColor, originalFont, drawn,
             rpc, run, prevDrawn, prevPages>>

VARIABLES svgString, aspectRatio, svgHeight

svgVars == <<svgString, aspectRatio, svgHeight>>

appVars == <<files, outputFormat, isProcessing, tasks, lastDownload>>

VARIABLES pdfFile, pageNo, pageImages, cpc

imgVars == <<pdfFile, pageNo, pageImages, cpc>>

(***************************************************************************)
(* Types                                                                   *)
(***************************************************************************)
OutputFileFormat == {"pdf", "tex"}

FileStatus == {"pending", "processing", "completed", "error"}

\* The File objects the browser can hand to the application.
FileHandles ==
    { [name |-> "a.pdf", lastModified |-> 1, type |-> "application/pdf"],
      [name |-> "b.pdf", lastModified |-> 1, type |-> "application/pdf"],
      [name |-> "c.png", lastModified |-> 1, type |-> "image/png"] }

\* `${file.name}-${file.lastModified}`
FileId(file) == <<file.name, file.lastModified>>

\* JavaScript values an UploadedFile.output can hold.
Null == [kind |-> "null", val |-> ""]
StringValue(s) == [kind |-> "string", val |-> s]
ObjectValue(s) == [kind |-> "object", val |-> s]

\* typeof v
TypeOf(v) == IF v.kind = "string" THEN "string" ELSE "object"

\* !v
Falsy(v) == v.kind = "null" \/ (v.kind = "string" /\ v.val = "")

(***************************************************************************)
(* Content Synthesizer (services/geminiService)                            *)
(***************************************************************************)
\* Texts the generative service can answer with.
LatexText   == "\\documentclass{article}"
DocJson     == "{title:Notes,content:[]}"
EmptyObject == "{}"
JsonNull    == "null"

ResponseTexts == {LatexText, DocJson, EmptyObject}

\* Answers to a request for the given format.  A "tex" answer is stored as
\* the string it is, whatever it holds, so one text stands for all of them;
\* a "pdf" answer goes through JSON.parse, where the texts differ.
ResponsesTo(format) == IF format = "pdf" THEN ResponseTexts ELSE {LatexText}

\* JSON.parse(text): ok = FALSE when it throws a SyntaxError.
JsonParse(text) ==
    CASE text = DocJson     -> [ok |-> TRUE,  value |-> ObjectValue(DocJson)]
      [] text = EmptyObject -> [ok |-> TRUE,  value |-> ObjectValue(EmptyObject)]
      [] text = JsonNull    -> [ok |-> TRUE,  value |-> Null]
      [] OTHER              -> [ok |-> FALSE, value |-> Null]

\* pdfResponseSchema: an object with title: string and content: array of blocks.
ConformsToSchema(v) == v = ObjectValue(DocJson)

\* processHandwrittenNotes after the service answered with responseText.
ProcessHandwrittenNotes(responseText, format) ==
    IF format = "pdf"
    THEN JsonParse(responseText)
    ELSE [ok |-> TRUE, value |-> StringValue(responseText)]

(***************************************************************************)
(* convertPdfToImages                                                      *)
(***************************************************************************)
\* The loop over pages 1..numPages; a page whose canvas has no 2d context
\* is skipped.
RECURSIVE PageLoop(_, _, _, _)
PageLoop(i, numPages, hasContext, images) ==
    IF i > numPages THEN images
    ELSE IF ~hasContext[i] THEN PageLoop(i + 1, numPages, hasContext, images)
    ELSE PageLoop(i + 1, numPages, hasContext, Append(images, i))

ConvertPdfToImages(numPages, hasContext) == PageLoop(1, numPages, hasContext, <<>>)

\* A source PDF as convertPdfToImages meets it: whether arrayBuffer() and
\* getDocument() resolve, its page count, and for every page whether the canvas
\* yields a 2d context and whether getPage/render resolve.
SourcePdfs ==
    UNION { [loads : BOOLEAN, numPages : {n},
             hasContext : [1..n -> BOOLEAN],
             renders : [1..n -> BOOLEAN]] : n \in 0..MaxDocPages }

ImgIdle ==
    /\ pageNo = 0 /\ pageImages = <<>> /\ cpc = "idle"

ImgInit ==
    /\ pdfFile \in SourcePdfs
    /\ ImgIdle

\* Lines 38-41: images = []; the file is read and the document loaded.
ConvertStart ==
    /\ cpc = "idle"
    /\ pageImages' = <<>>
    /\ IF pdfFile.loads
       THEN pageNo' = 1 /\ cpc' = "loop"
       ELSE pageNo' = pageNo /\ cpc' = "thrown"
    /\ UNCHANGED <<pdfFile, appVars, pdfVars, svgVars>>

\* One iteration of  for (let i = 1; i <= numPages; i++).
PageStep ==
    /\ cpc = "loop"
    /\ pageNo <= pdfFile.numPages
    /\ IF ~pdfFile.hasContext[pageNo]
       THEN /\ pageNo' = pageNo + 1
            /\ UNCHANGED <<pageImages, cpc>>
       ELSE IF ~pdfFile.renders[pageNo]
       THEN /\ cpc' = "thrown"
            /\ UNCHANGED <<pageNo, pageImages>>
       ELSE /\ pageImages' = Append(pageImages, pageNo)
            /\ pageNo' = pageNo + 1
            /\ UNCHANGED cpc
    /\ UNCHANGED <<pdfFile, appVars, pdfVars, svgVars>>

\* return images
ConvertReturn ==
    /\ cpc = "loop"
    /\ pageNo > pdfFile.numPages
    /\ cpc' = "returned"
    /\ UNCHANGED <<pdfFile, pageNo, pageImages, appVars, pdfVars, svgVars>>

ImgNext ==
    \/ ConvertStart
    \/ PageStep
    \/ ConvertReturn

(***************************************************************************)
(* App state                                                               *)
(***************************************************************************)
\* What a step hands to the browser for download: "pdf", "tex" or nothing.
NoDownload == "nothing"

AppInit ==
    /\ files = <<>>
    /\ outputFormat = "pdf"
    /\ isProcessing = FALSE
    /\ tasks = <<>>
    /\ lastDownload = NoDownload

\* Variant without the type filter.
NewFilesUnfiltered(selectedFiles) ==
    [i \in DOMAIN selectedFiles |->
        [id |-> FileId(selectedFiles[i]), file |-> selectedFiles[i],
         status |-> "pending", output |-> Null]]

\* selectedFiles.filter(type === 'application/pdf').map(file => ({...}))
RECURSIVE NewFiles(_)
NewFiles(selectedFiles) ==
    IF selectedFiles = <<>> THEN <<>>
    ELSE LET file == Head(selectedFiles) IN
         IF file.type = "application/pdf"
         THEN <<[id |-> FileId(file), file |-> file,
                 status |-> "pending", output |-> Null]>>
              \o NewFiles(Tail(selectedFiles))
         ELSE NewFiles(Tail(selectedFiles))

\* Non-empty selections of distinct files (picker or drop).
Selections ==
    { s \in UNION { [1..n -> FileHandles] : n \in 1..MaxSelect } :
        \A i, j \in DOMAIN s : i # j => s[i] # s[j] }

HandleFilesSelected(selectedFiles) ==
    /\ Len(files) + Len(NewFiles(selectedFiles)) <= MaxFiles
    /\ files' = files \o NewFiles(selectedFiles)
    /\ lastDownload' = NoDownload
    /\ UNCHANGED <<outputFormat, isProcessing, tasks, pdfVars, svgVars, imgVars>>

RemoveFile(id) ==
    /\ \E i \in DOMAIN files : files[i].id = id
    /\ files' = SelectSeq(files, LAMBDA f : f.id # id)
    /\ lastDownload' = NoDownload
    /\ UNCHANGED <<outputFormat, isProcessing, tasks, pdfVars, svgVars, imgVars>>

\* FormatSelector: onFormatChange(format)
SetOutputFormat(format) ==
    /\ outputFormat' = format
    /\ lastDownload' = NoDownload
    /\ UNCHANGED <<files, isProcessing, tasks, pdfVars, svgVars, imgVars>>

\* Variant that does not compare ids.
SetStatusOfAll(prev, id, status) ==
    [i \in DOMAIN prev |-> [prev[i] EXCEPT !.status = status]]

\* prev.map(f => f.id === id ? { ...f, status } : f)
SetStatus(prev, id, status) ==
    [i \in DOMAIN prev |->
        IF prev[i].id = id THEN [prev[i] EXCEPT !.status = status] ELSE prev[i]]

\* prev.map(f => f.id === id ? { ...f, status: 'completed', output: result } : f)
SetCompleted(prev, id, result) ==
    [i \in DOMAIN prev |->
        IF prev[i].id = id
        THEN [prev[i] EXCEPT !.status = "completed", !.output = result]
        ELSE prev[i]]

\* files.filter(f => f.status === 'pending')
PendingFiles == SelectSeq(files, LAMBDA f : f.status = "pending")

\* The synchronous part of every launched task: its 'processing' update.
RECURSIVE MarkProcessing(_, _)
MarkProcessing(prev, toProcess) ==
    IF toProcess = <<>> THEN prev
    ELSE MarkProcessing(SetStatus(prev, Head(toProcess).id, "processing"),
                        Tail(toProcess))

Running(t) == t.pc \in {"images", "synth"}

\* The convert button is disabled while processing or while nothing is pending.
ConvertEnabled ==
    /\ ~isProcessing
    /\ \E i \in DOMAIN files : files[i].status = "pending"

\* Variant without setIsProcessing(true).
HandleConvertUnflagged ==
    /\ ConvertEnabled
    /\ isProcessing' = isProcessing
    /\ files' = MarkProcessing(files, PendingFiles)
    /\ tasks' = [k \in 1..Len(PendingFiles) |->
                    [id |-> PendingFiles[k].id, format |-> outputFormat,
                     pc |-> "images"]]
    /\ lastDownload' = NoDownload
    /\ UNCHANGED <<outputFormat, pdfVars, svgVars, imgVars>>

HandleConvert ==
    /\ ConvertEnabled
    /\ isProcessing' = TRUE
    /\ files' = MarkProcessing(files, PendingFiles)
    /\ tasks' = [k \in 1..Len(PendingFiles) |->
                    [id |-> PendingFiles[k].id, format |-> outputFormat,
                     pc |-> "images"]]
    /\ lastDownload' = NoDownload
    /\ UNCHANGED <<outputFormat, pdfVars, svgVars, imgVars>>

\* Variant that never reaches setIsProcessing(false).
JoinBatchNever(settled) ==
    /\ tasks' = settled
    /\ isProcessing' = isProcessing

\* await Promise.all(processingPromises); setIsProcessing(false)
\* The task records of a joined batch are dropped.
JoinBatch(settled) ==
    IF \E k \in DOMAIN settled : Running(settled[k])
    THEN /\ tasks' = settled
         /\ isProcessing' = isProcessing
    ELSE /\ tasks' = <<>>
         /\ isProcessing' = FALSE

\* catch (error) { setFiles(... status: 'error') }
TaskFails(k) ==
    /\ JoinBatch([tasks EXCEPT ![k].pc = "error"])
    /\ files' = SetStatus(files, tasks[k].id, "error")
    /\ lastDownload' = NoDownload
    /\ UNCHANGED <<outputFormat, pdfVars, svgVars, imgVars>>

\* convertPdfToImages rejects (file read, PDF load or page render failure).
ImagesThrow(k) ==
    /\ k \in DOMAIN tasks /\ tasks[k].pc = "images"
    /\ TaskFails(k)

\* Variant without the  images.length === 0  check.
ImagesDoneUnchecked(k, images) ==
    /\ k \in DOMAIN tasks /\ tasks[k].pc = "images"
    /\ tasks' = [tasks EXCEPT ![k].pc = "synth"]
    /\ lastDownload' = NoDownload
    /\ UNCHANGED <<files, outputFormat, isProcessing, pdfVars, svgVars, imgVars>>

\* convertPdfToImages resolves.
ImagesDone(k, images) ==
    /\ k \in DOMAIN tasks /\ tasks[k].pc = "images"
    /\ IF Len(images) = 0
       THEN TaskFails(k)
       ELSE /\ tasks' = [tasks EXCEPT ![k].pc = "synth"]
            /\ lastDownload' = NoDownload
            /\ UNCHANGED <<files, outputFormat, isProcessing, pdfVars, svgVars, imgVars>>

\* The request to the service fails (network / service error).
SynthThrows(k) ==
    /\ k \in DOMAIN tasks /\ tasks[k].pc = "synth"
    /\ TaskFails(k)

\* Variant that reads the format selected when the answer arrives.
SynthDoneCurrentFormat(k, responseText) ==
    /\ k \in DOMAIN tasks /\ tasks[k].pc = "synth"
    /\ LET result == ProcessHandwrittenNotes(responseText, outputFormat) IN
       IF result.ok
       THEN /\ JoinBatch([tasks EXCEPT ![k].pc = "completed"])
            /\ files' = SetCompleted(files, tasks[k].id, result.value)
            /\ lastDownload' = NoDownload
            /\ UNCHANGED <<outputFormat, pdfVars, svgVars, imgVars>>
       ELSE TaskFails(k)

\* The service answers with responseText.
SynthDone(k, responseText) ==
    /\ k \in DOMAIN tasks /\ tasks[k].pc = "synth"
    /\ LET result == ProcessHandwrittenNotes(responseText, tasks[k].format) IN
       IF result.ok
       THEN /\ JoinBatch([tasks EXCEPT ![k].pc = "completed"])
            /\ files' = SetCompleted(files, tasks[k].id, result.value)
            /\ lastDownload' = NoDownload
            /\ UNCHANGED <<outputFormat, pdfVars, svgVars, imgVars>>
       ELSE TaskFails(k)

\* files.find(f => f.id === fileId)
Find(id) ==
    LET I == { i \in DOMAIN files : files[i].id = id } IN
    files[CHOOSE i \in I : \A j \in I : i <= j]

\* The download button exists on completed entries only (FileItem).
HandleDownload(id) ==
    /\ \E i \in DOMAIN files : files[i].id = id /\ files[i].status = "completed"
    /\ LET file == Find(id) IN
       lastDownload' =
            IF Falsy(file.output) THEN "nothing"
            ELSE IF outputFormat = "pdf" /\ TypeOf(file.output) = "object" THEN "pdf"
            ELSE IF outputFormat = "tex" /\ TypeOf(file.output) = "string" THEN "tex"
            ELSE "nothing"
    /\ UNCHANGED <<files, outputFormat, isProcessing, tasks, pdfVars, svgVars, imgVars>>

ContextMaps(numPages) == [1..numPages -> BOOLEAN]

\* Every image list convertPdfToImages can resolve with.
ImageLists ==
    { ConvertPdfToImages(n, c) : <<n, c>> \in
        UNION { {n} \X ContextMaps(n) : n \in 0..MaxPages } }

AppNext ==
    \/ \E s \in Selections : HandleFilesSelected(s)
    \/ \E i \in DOMAIN files : RemoveFile(files[i].id)
    \/ \E f \in OutputFileFormat : SetOutputFormat(f)
    \/ HandleConvert
    \/ \E k \in DOMAIN tasks : ImagesThrow(k)
    \/ \E k \in DOMAIN tasks : \E images \in ImageLists : ImagesDone(k, images)
    \/ \E k \in DOMAIN tasks : SynthThrows(k)
    \/ \E k \in DOMAIN tasks : \E r \in ResponsesTo(tasks[k].format) : SynthDone(k, r)
    \/ \E i \in DOMAIN files : HandleDownload(files[i].id)

(***************************************************************************)
(* generatePdf                                                             *)
(***************************************************************************)
\* jsPDF default page (A4, mm): doc.internal.pageSize.getWidth()
PageWidth == 210
PageMargin == 14
TextWidth == PageWidth - (PageMargin * 2)

\* Variant in which the cursor outlives the call.
InitialYPosKept == IF run = 0 THEN 20 ELSE yPos

\* let yPos = 20
InitialYPos == 20
\* yPos = 20 after every doc.addPage()
TopMargin == 20
\* yPos += 20 after the title
TitleHeight == 20
\* if (yPos > 270) at the top of the block loop
LoopLimit == 270
\* the limit of the equation, list-item and diagram checks
BottomLimit == 280

\* Numbers that are not finite.  Infinity is a number above every length of
\* the layout.  NaN is held as a number below zero: a sum with it stays below
\* zero and every comparison  x > limit  with it is false, as the code's sums
\* and comparisons with NaN are.
Infinity == 1000000
NaN == 0 - 1000000
IsNaN(y) == y < 0

\* parseFloat(s)
ParseFloat(s) ==
    CASE s = "364"  -> [nan |-> FALSE, num |-> 364]
      [] s = "182"  -> [nan |-> FALSE, num |-> 182]
      [] s = "91"   -> [nan |-> FALSE, num |-> 91]
      [] s = "100%" -> [nan |-> FALSE, num |-> 100]
      [] s = "2"    -> [nan |-> FALSE, num |-> 2]
      [] s = "0"    -> [nan |-> FALSE, num |-> 0]
      [] s = "0,0,364,182" -> [nan |-> FALSE, num |-> 0]
      [] s = "Infinity" -> [nan |-> FALSE, num |-> Infinity]
      [] OTHER      -> [nan |-> TRUE,  num |-> 0]

\* str.split(/\s+/)
SplitSpaces(s) ==
    CASE s = "0 0 364 182" -> <<"0", "0", "364", "182">>
      [] s = "0 0 91 182"  -> <<"0", "0", "91", "182">>
      [] s = "0 0 182 182" -> <<"0", "0", "182", "182">>
      [] s = "0 0 0 0"     -> <<"0", "0", "0", "0">>
      [] s = "0 0 364"     -> <<"0", "0", "364">>
      [] OTHER             -> <<s>>

\* An SVG string is modelled by its attributes name="value" in textual order.
\* The text  name="  occurs inside the attribute  <prefix>name="...".
Contains(attrName, pattern) ==
    \/ attrName = pattern
    \/ (pattern = "width" /\ attrName = "stroke-width")

\* svgString.match(/<pattern>="([^"]+)"/): the first occurrence with a
\* non-empty value; <<>> when there is none (null), else <<value>>.
RECURSIVE Match(_, _)
Match(svg, pattern) ==
    IF svg = <<>> THEN <<>>
    ELSE IF Contains(Head(svg).name, pattern) /\ Head(svg).value # ""
         THEN <<Head(svg).value>>
         ELSE Match(Tail(svg), pattern)

Positive(x) == ~x.nan /\ x.num > 0

\* let aspectRatio = 1; ... (height over width, as the fraction num / den)
AspectRatio(svg) ==
    LET widthMatch   == Match(svg, "width")
        heightMatch  == Match(svg, "height")
        viewBoxMatch == Match(svg, "viewBox")
    IN  IF widthMatch # <<>> /\ heightMatch # <<>>
        THEN LET w == ParseFloat(widthMatch[1])
                 h == ParseFloat(heightMatch[1])
             IN  IF Positive(w) /\ Positive(h)
                 THEN [num |-> h.num, den |-> w.num]
                 ELSE [num |-> 1, den |-> 1]
        ELSE IF viewBoxMatch # <<>>
        THEN LET parts == SplitSpaces(viewBoxMatch[1]) IN
             IF Len(parts) = 4
             THEN LET vbWidth  == ParseFloat(parts[3])
                      vbHeight == ParseFloat(parts[4])
                  IN  IF Positive(vbWidth) /\ Positive(vbHeight)
                      THEN [num |-> vbHeight.num, den |-> vbWidth.num]
                      ELSE [num |-> 1, den |-> 1]
             ELSE [num |-> 1, den |-> 1]
        ELSE [num |-> 1, den |-> 1]

\* svgHeight = renderWidth * aspectRatio
SvgHeight(svg) ==
    LET a == AspectRatio(svg) IN
    IF a.num = Infinity /\ a.den = Infinity THEN NaN
    ELSE IF a.num = Infinity THEN Infinity
    ELSE IF a.den = Infinity THEN 0
    ELSE (TextWidth * a.num) \div a.den

Attr(n, v) == [name |-> n, value |-> v]

\* item.svg: absent (or "") or an SVG string
NoSvg == [present |-> FALSE, attrs |-> <<>>]
Svg(attrs) == [present |-> TRUE, attrs |-> attrs]

\* Content blocks.  lines is splitTextToSize(text, width).length in the font of
\* the block's type (at least 1); items holds it for every list item.
Item(type, lines, items, svg) ==
    [type |-> type, lines |-> lines, items |-> items, svg |-> svg]

SvgWide == Svg(<<Attr("width", "364"), Attr("height", "182")>>)
\* <svg width="Infinity" height="Infinity">: both pass  w > 0 && h > 0
SvgNonFinite == Svg(<<Attr("width", "Infinity"), Attr("height", "Infinity")>>)

BlockMenu ==
    { Item("heading1", 1, <<>>, NoSvg),
      Item("heading2", 1, <<>>, NoSvg),
      Item("paragraph", 45, <<>>, NoSvg),
      Item("paragraph", 60, <<>>, NoSvg),
      Item("bullet_list", 1, <<49, 1>>, NoSvg),
      Item("numbered_list", 1, <<1>>, NoSvg),
      Item("equation", 2, <<>>, NoSvg),
      Item("diagram", 1, <<>>, NoSvg),
      Item("diagram", 1, <<>>, SvgWide) }

Documents == UNION { [1..n -> BlockMenu] : n \in 1..MaxBlocks }

\* Documents that open with a diagram whose declared size is not finite.
NonFiniteDocuments ==
    { <<Item("diagram", 1, <<>>, SvgNonFinite)>> \o d :
        d \in { e \in Documents : Len(e) < MaxBlocks } }

Font(size, style) == [size |-> size, style |-> style]

\* new jsPDF(): 16pt normal, black text
DefaultFont == Font(16, "normal")
Black == "0,0,0"
Red == "255,0,0"

Draw(what, page, y, h) ==
    [item |-> idx, what |-> what, page |-> page, y |-> y, h |-> h,
     font |-> font', color |-> textColor]

PdfIdle ==
    /\ idx = 0 /\ yPos = 0 /\ pageCount = 0
    /\ font = DefaultFont /\ textColor = Black /\ originalFont = DefaultFont
    /\ drawn = <<>> /\ rpc = "idle" /\ run = 0
    /\ prevDrawn = <<>> /\ prevPages = 0

PdfInit ==
    /\ data \in Documents
    /\ PdfIdle

\* generatePdf is called: lines 60-69.
GeneratePdf ==
    /\ rpc \in {"idle", "saved"}
    /\ run < MaxRuns
    /\ run' = run + 1
    /\ prevDrawn' = drawn
    /\ prevPages' = pageCount
    /\ pageCount' = 1
    /\ font' = Font(22, DefaultFont.style)
    /\ textColor' = Black
    /\ originalFont' = DefaultFont
    /\ drawn' = <<[item |-> 0, what |-> "title", page |-> 1, y |-> InitialYPos,
                   h |-> 0, font |-> font', color |-> Black]>>
    /\ yPos' = InitialYPos + TitleHeight
    /\ idx' = 1
    /\ rpc' = "loop"
    /\ UNCHANGED <<data, appVars, svgVars, imgVars>>

\* Variant whose page break keeps the cursor.
LoopTopKeepsCursor ==
    IF yPos > 270
    THEN [page |-> pageCount + 1, y |-> yPos]
    ELSE [page |-> pageCount, y |-> yPos]

\* if (yPos > 270) { doc.addPage(); yPos = 20; }
LoopTop ==
    IF yPos > LoopLimit
    THEN [page |-> pageCount + 1, y |-> TopMargin]
    ELSE [page |-> pageCount, y |-> yPos]

AtBlock(type) ==
    /\ rpc = "loop"
    /\ idx <= Len(data)
    /\ data[idx].type = type

NextBlock ==
    /\ idx' = idx + 1
    /\ rpc' = "loop"
    /\ UNCHANGED <<data, run, prevDrawn, prevPages, appVars, svgVars, imgVars>>

Heading1 ==
    /\ AtBlock("heading1")
    /\ font' = Font(18, "bold")
    /\ drawn' = Append(drawn, Draw("text", LoopTop.page, LoopTop.y, 0))
    /\ yPos' = LoopTop.y + 10
    /\ pageCount' = LoopTop.page
    /\ UNCHANGED <<textColor, originalFont>>
    /\ NextBlock

Heading2 ==
    /\ AtBlock("heading2")
    /\ font' = Font(14, "bold")
    /\ drawn' = Append(drawn, Draw("text", LoopTop.page, LoopTop.y, 0))
    /\ yPos' = LoopTop.y + 8
    /\ pageCount' = LoopTop.page
    /\ UNCHANGED <<textColor, originalFont>>
    /\ NextBlock

Paragraph ==
    /\ AtBlock("paragraph")
    /\ font' = Font(12, "normal")
    /\ drawn' = Append(drawn, Draw("text", LoopTop.page, LoopTop.y,
                                   data[idx].lines * 5))
    /\ yPos' = LoopTop.y + (data[idx].lines * 5) + 5
    /\ pageCount' = LoopTop.page
    /\ UNCHANGED <<textColor, originalFont>>
    /\ NextBlock

\* Variant without the equation's own space check.
EquationTopUnchecked(equationHeight) == LoopTop

\* if (yPos + equationHeight + 6 > 280) { doc.addPage(); yPos = 20; }
EquationTop(equationHeight) ==
    IF LoopTop.y + equationHeight + 6 > BottomLimit
    THEN [page |-> LoopTop.page + 1, y |-> TopMargin]
    ELSE LoopTop

Equation ==
    /\ AtBlock("equation")
    /\ font' = Font(12, "normal")
    /\ LET equationHeight == data[idx].lines * 5
           top == EquationTop(equationHeight)
       IN  /\ drawn' = Append(drawn, Draw("text", top.page, top.y + 3, equationHeight))
           /\ yPos' = top.y + 3 + equationHeight + 3
           /\ pageCount' = top.page
    /\ UNCHANGED <<textColor, originalFont>>
    /\ NextBlock

\* item.items.forEach(listItem => { ... }) from list item k on
RECURSIVE ListLoop(_, _, _)
ListLoop(items, k, st) ==
    IF k > Len(items) THEN st
    ELSE LET top == IF st.y > BottomLimit
                    THEN [page |-> st.page + 1, y |-> TopMargin]
                    ELSE [page |-> st.page, y |-> st.y]
         IN  ListLoop(items, k + 1,
                 [page  |-> top.page,
                  y     |-> top.y + (items[k] * 5) + 2,
                  drawn |-> Append(st.drawn,
                               Draw("text", top.page, top.y, items[k] * 5))])

BulletList ==
    /\ AtBlock("bullet_list")
    /\ font' = Font(12, "normal")
    /\ LET st == ListLoop(data[idx].items, 1,
                    [page |-> LoopTop.page, y |-> LoopTop.y, drawn |-> drawn])
       IN  /\ drawn' = st.drawn
           /\ yPos' = st.y + 5
           /\ pageCount' = st.page
    /\ UNCHANGED <<textColor, originalFont>>
    /\ NextBlock

\* A type without a case in the switch: only the loop-top check applies.
OtherBlock ==
    /\ AtBlock("numbered_list")
    /\ yPos' = LoopTop.y
    /\ pageCount' = LoopTop.page
    /\ UNCHANGED <<font, textColor, originalFont, drawn>>
    /\ NextBlock

\* if (!item.svg) break;
DiagramWithoutSvg ==
    /\ AtBlock("diagram")
    /\ ~data[idx].svg.present
    /\ yPos' = LoopTop.y
    /\ pageCount' = LoopTop.page
    /\ UNCHANGED <<font, textColor, originalFont, drawn>>
    /\ NextBlock

DescriptionHeight(item) == (item.lines * 4) + 5

\* if (yPos + descriptionHeight + svgHeight > 280) { doc.addPage(); yPos = 20; }
DiagramTop(item) ==
    IF LoopTop.y + DescriptionHeight(item) + SvgHeight(item.svg.attrs) > BottomLimit
    THEN [page |-> LoopTop.page + 1, y |-> TopMargin]
    ELSE LoopTop

\* Lines 131-198: up to  await promise.
DiagramBegin ==
    /\ AtBlock("diagram")
    /\ data[idx].svg.present
    /\ originalFont' = font
    /\ font' = Font(10, "italic")
    /\ LET top == DiagramTop(data[idx]) IN
       /\ drawn' = Append(drawn, Draw("caption", top.page, top.y,
                                      DescriptionHeight(data[idx])))
       /\ yPos' = top.y + DescriptionHeight(data[idx])
       /\ pageCount' = top.page
    /\ rpc' = "await"
    /\ UNCHANGED <<data, idx, textColor, run, prevDrawn, prevPages, appVars, svgVars, imgVars>>

\* Lines 211-212, then the next iteration.
DiagramEnd ==
    /\ font' = originalFont
    /\ originalFont' = DefaultFont
    /\ NextBlock

\* img.onload: the image is added when the canvas has a 2d context.
DiagramLoaded(hasContext) ==
    /\ rpc = "await"
    /\ drawn' = IF hasContext
                THEN Append(drawn, [item |-> idx, what |-> "image",
                                    page |-> pageCount, y |-> yPos,
                                    h |-> SvgHeight(data[idx].svg.attrs),
                                    font |-> font, color |-> textColor])
                ELSE drawn
    /\ yPos' = yPos + SvgHeight(data[idx].svg.attrs) + 10
    /\ UNCHANGED <<pageCount, textColor>>
    /\ DiagramEnd

\* Variant that does not reset the text colour.
ErrorLineStaysRed ==
    [what |-> "errorline", advance |-> 10, font |-> [size |-> 10, style |-> "normal"],
     color |-> "255,0,0", colorAfter |-> "255,0,0"]

\* What the catch block leaves behind: the cursor advance and the text colour.
ErrorLine ==
    [what |-> "errorline", advance |-> 10, font |-> Font(10, "normal"),
     color |-> Red, colorAfter |-> Black]

\* img.onerror: the promise rejects, the catch block runs.
DiagramRejected ==
    /\ rpc = "await"
    /\ drawn' = Append(drawn, [item |-> idx, what |-> ErrorLine.what,
                               page |-> pageCount, y |-> yPos, h |-> 0,
                               font |-> ErrorLine.font, color |-> ErrorLine.color])
    /\ textColor' = ErrorLine.colorAfter
    /\ yPos' = yPos + ErrorLine.advance
    /\ UNCHANGED pageCount
    /\ DiagramEnd

\* doc.save(...)
Save ==
    /\ rpc = "loop"
    /\ idx > Len(data)
    /\ rpc' = "saved"
    /\ UNCHANGED <<data, idx, yPos, pageCount, font, textColor, originalFont,
                   drawn, run, prevDrawn, prevPages, appVars, svgVars, imgVars>>

PdfNext ==
    \/ GeneratePdf
    \/ Heading1
    \/ Heading2
    \/ Paragraph
    \/ Equation
    \/ BulletList
    \/ OtherBlock
    \/ DiagramWithoutSvg
    \/ DiagramBegin
    \/ \E c \in BOOLEAN : DiagramLoaded(c)
    \/ DiagramRejected
    \/ Save

(***************************************************************************)
(* The aspect-ratio inference of a diagram block, on its own               *)
(***************************************************************************)
AttrMenu ==
    { Attr("width", "364"), Attr("width", "auto"), Attr("width", "0"),
      Attr("height", "182"), Attr("height", "auto"),
      Attr("viewBox", "0 0 364 182"), Attr("viewBox", "0 0 91 182"),
      Attr("viewBox", "0,0,364,182"), Attr("viewBox", "0 0 0 0"),
      Attr("viewBox", "0 0 364"), Attr("stroke-width", "2") }

SvgStrings == UNION { [1..n -> AttrMenu] : n \in 0..MaxAttrs }

\* let svgHeight = 50; let aspectRatio = 1;
SvgIdle ==
    /\ aspectRatio = [num |-> 1, den |-> 1]
    /\ svgHeight = 50

SvgInit ==
    /\ svgString \in SvgStrings
    /\ SvgIdle

\* Lines 139-160.
InferAspectRatio ==
    /\ svgHeight = 50
    /\ aspectRatio' = AspectRatio(svgString)
    /\ svgHeight' = SvgHeight(svgString)
    /\ UNCHANGED <<svgString, appVars, pdfVars, imgVars>>

(***************************************************************************)
(* Specifications                                                          *)
(***************************************************************************)
vars == <<appVars, pdfVars, svgVars, imgVars>>


\* The App component; no document is being rendered.
ImgNone ==
    /\ pdfFile = [loads |-> TRUE, numPages |-> 0, hasContext |-> <<>>, renders |-> <<>>]
    /\ ImgIdle

Init == AppInit /\ PdfIdle /\ data = <<>> /\ SvgIdle /\ svgString = <<>> /\ ImgNone

Next == AppNext

Spec == Init /\ [][Next]_vars

\* One step of launched task k: an external call of it resolves or rejects.
\* (Every such step moves one task forward, so fairness of the steps taken
\* together lets every task settle.)
TaskStep(k) ==
    \/ ImagesThrow(k)
    \/ \E images \in ImageLists : ImagesDone(k, images)
    \/ SynthThrows(k)
    \/ \E r \in ResponsesTo(tasks[k].format) : SynthDone(k, r)

\* The App component when every external call of a launched task eventually
\* resolves or rejects.
SpecLive == Init /\ [][Next]_vars /\ WF_vars(\E k \in DOMAIN tasks : TaskStep(k))

\* generatePdf on every document of the bounded set.
InitPdf == AppInit /\ PdfInit /\ SvgIdle /\ svgString = <<>> /\ ImgNone

NextPdf == PdfNext

SpecPdf == InitPdf /\ [][NextPdf]_vars

\* generatePdf on the documents with a diagram of a size that is not finite.
InitPdfNonFinite ==
    /\ AppInit /\ PdfIdle /\ data \in NonFiniteDocuments
    /\ SvgIdle /\ svgString = <<>> /\ ImgNone

SpecPdfNonFinite == InitPdfNonFinite /\ [][NextPdf]_vars

\* The aspect-ratio inference on every SVG string of the bounded set.
InitSvg == AppInit /\ PdfIdle /\ data = <<>> /\ SvgInit /\ ImgNone

NextSvg == InferAspectRatio

SpecSvg == InitSvg /\ [][NextSvg]_vars

\* convertPdfToImages on every source PDF of the bounded set.
InitImg == AppInit /\ PdfIdle /\ data = <<>> /\ SvgIdle /\ svgString = <<>> /\ ImgInit

NextImg == ImgNext

SpecImg == InitImg /\ [][NextImg]_vars

(***************************************************************************)
(* Properties                                                              *)
(***************************************************************************)
StatusStep(s, t) ==
    \/ s = t
    \/ s = "pending" /\ t = "processing"
    \/ s = "processing" /\ t \in {"completed", "error"}

\* C1: the status of every list entry only changes along
\* pending -> processing -> completed | error; entries are created pending.
C1_StatusLifecycle ==
    [][/\ Len(files') = Len(files) =>
            \A i \in DOMAIN files : StatusStep(files[i].status, files'[i].status)
       /\ Len(files') > Len(files) =>
            /\ \A i \in DOMAIN files : StatusStep(files[i].status, files'[i].status)
            /\ \A i \in (Len(files) + 1)..Len(files') : files'[i].status = "pending"
      ]_vars

\* The step writes `status` to the entries of task k's identity and leaves
\* every other entry and every other task as it was.
WritesOnlyOwn(k, status) ==
    /\ Len(files') = Len(files)
    /\ \A i \in DOMAIN files :
          IF files[i].id = tasks[k].id
          THEN /\ files'[i].status = status
               /\ files'[i].id = files[i].id
               /\ files'[i].file = files[i].file
          ELSE files'[i] = files[i]
    /\ \/ tasks' = <<>> /\ \A j \in DOMAIN tasks : j # k => ~Running(tasks[j])
       \/ /\ DOMAIN tasks' = DOMAIN tasks
          /\ \A j \in DOMAIN tasks : j # k => tasks'[j] = tasks[j]

C3_OneTaskPerIdentity ==
    /\ \A k1, k2 \in DOMAIN tasks :
          (k1 # k2 /\ Running(tasks[k1]) /\ Running(tasks[k2]))
             => tasks[k1].id # tasks[k2].id
    /\ \A k \in DOMAIN tasks : \A i, j \in DOMAIN files :
          (Running(tasks[k]) /\ files[i].id = tasks[k].id /\ files[j].id = tasks[k].id)
             => i = j

\* C4: the payload of every completed file has the kind of the currently
\* selected format (an object for pdf, a string for tex).
C4_PayloadMatchesFormat ==
    \A i \in DOMAIN files :
        (files[i].status = "completed" /\ files[i].output # Null) =>
            IF outputFormat = "pdf"
            THEN files[i].output.kind = "object"
            ELSE files[i].output.kind = "string"

\* C5: a paragraph whose lines x 5 would cross the bottom margin from the
\* current cursor is placed at the top margin of a new page.
C5_ParagraphPageBreak ==
    [][(/\ rpc = "loop" /\ idx <= Len(data)
        /\ data[idx].type = "paragraph"
        /\ yPos + (data[idx].lines * 5) > BottomLimit
        /\ idx' = idx + 1)
       => /\ pageCount' = pageCount + 1
          /\ drawn'[Len(drawn')].page = pageCount + 1
          /\ drawn'[Len(drawn')].y = TopMargin
      ]_vars

\* What every handleFilesSelected step that appends satisfies; it only narrows
\* the steps the selections are tried on.
MaySelect ==
    /\ tasks' = tasks /\ outputFormat' = outputFormat
    /\ lastDownload' = NoDownload
    /\ Len(files') > Len(files)

\* A selection contributes no entry only if none of its files is a PDF.
NothingOnlyWithoutPdf ==
    \A s \in Selections :
        NewFiles(s) = <<>> => \A i \in DOMAIN s : s[i].type # "application/pdf"

\* C6: handleFilesSelected appends exactly the application/pdf files of the
\* selection, in order, pending with a null output, and keeps the old entries;
\* only a selection without a PDF appends nothing.
C6_OnlyPdfAppended ==
    [][/\ NothingOnlyWithoutPdf
       /\ MaySelect => \A s \in Selections :
            HandleFilesSelected(s) =>
               LET pdfs == SelectSeq(s, LAMBDA f : f.type = "application/pdf") IN
               /\ Len(files') = Len(files) + Len(pdfs)
               /\ \A i \in DOMAIN files : files'[i] = files[i]
               /\ \A j \in DOMAIN pdfs :
                     /\ files'[Len(files) + j].file = pdfs[j]
                     /\ files'[Len(files) + j].id = FileId(pdfs[j])
                     /\ files'[Len(files) + j].status = "pending"
                     /\ files'[Len(files) + j].output = Null
               /\ \A i \in DOMAIN files' : files'[i].file.type = "application/pdf"
      ]_vars

\* A pending entry with a null output follows an entry that was already
\* converted.
C6_Witness ==
    /\ Len(files) = 2
    /\ files[1].status = "completed"
    /\ files[2].status = "pending" /\ files[2].output = Null
    /\ files[2].file.type = "application/pdf"

RECURSIVE Declared(_, _)
Declared(svg, name) ==
    IF svg = <<>> THEN <<>>
    ELSE IF Head(svg).name = name /\ Head(svg).value # ""
         THEN <<Head(svg).value>>
         ELSE Declared(Tail(svg), name)

SameRatio(a, num, den) == a.num * den = num * a.den

\* C8: the ratio is height/width of the declared width and height, otherwise
\* of the third and fourth viewBox numbers when the viewBox is usable, and
\* 1:1 only when neither can be used.
C8_AspectRatioSource ==
    svgHeight # 50 =>
        LET w  == Declared(svgString, "width")
            h  == Declared(svgString, "height")
            vb == Declared(svgString, "viewBox")
            usableDims ==
                /\ w # <<>> /\ h # <<>>
                /\ Positive(ParseFloat(w[1])) /\ Positive(ParseFloat(h[1]))
            usableBox ==
                /\ vb # <<>>
                /\ Len(SplitSpaces(vb[1])) = 4
                /\ Positive(ParseFloat(SplitSpaces(vb[1])[3]))
                /\ Positive(ParseFloat(SplitSpaces(vb[1])[4]))
        IN  IF usableDims
            THEN SameRatio(aspectRatio, ParseFloat(h[1]).num, ParseFloat(w[1]).num)
            ELSE IF usableBox
            THEN SameRatio(aspectRatio, ParseFloat(SplitSpaces(vb[1])[4]).num,
                                        ParseFloat(SplitSpaces(vb[1])[3]).num)
            ELSE SameRatio(aspectRatio, 1, 1)

TextOnly(d) ==
    \A i \in DOMAIN d :
        d[i].type \in {"heading1", "heading2", "paragraph", "bullet_list"}

C10_MalformedIsError ==
    [][\A k \in DOMAIN tasks : \A r \in ResponseTexts :
         (SynthDone(k, r) /\ tasks[k].format = "pdf" /\ r # DocJson) =>
            \A i \in DOMAIN files :
               files[i].id = tasks[k].id => files'[i].status = "error"
      ]_vars

C12_OneImagePerPage ==
    cpc = "returned" =>
        /\ Len(pageImages) = pdfFile.numPages
        /\ \A i \in DOMAIN pageImages : pageImages[i] = i

\* The step is a convert trigger: isProcessing goes from false to true.
ConvertTriggered == ~isProcessing /\ isProcessing'

\* C13: convert is triggered only with a pending file and no batch in
\* flight, and between triggers a pending entry that stays in the list stays
\* pending.
C13_ConvertOnlyWhenIdle ==
    [][/\ ConvertTriggered =>
            /\ \E i \in DOMAIN files : files[i].status = "pending"
            /\ \A k \in DOMAIN tasks : ~Running(tasks[k])
       /\ (~ConvertTriggered /\ Len(files') = Len(files)) =>
            \A i \in DOMAIN files :
                files[i].status = "pending" => files'[i].status = "pending"
      ]_vars

\* C14: whatever the user does meanwhile, a started batch ends and the files
\* it set to processing do not stay so: again and again isProcessing is false
\* and no entry of the list is processing.
C14_BatchTerminates ==
    []<>(/\ ~isProcessing
         /\ \A i \in DOMAIN files : files[i].status # "processing")

\* A batch has ended with the format toggled since its trigger: one file is
\* completed with a Document Model while tex is selected, another one failed.
C14_Witness ==
    /\ ~isProcessing /\ tasks = <<>> /\ outputFormat = "tex"
    /\ \E i, j \in DOMAIN files :
          /\ files[i].status = "completed" /\ files[i].output.kind = "object"
          /\ files[j].status = "error"

\* Task k calls the Content Synthesizer in this step.
CallsSynthesizer(k) ==
    /\ tasks[k].pc = "images"
    /\ k \in DOMAIN tasks' /\ tasks'[k].pc = "synth"

\* C15: an entry in error never returns to pending or processing, and the
\* synthesizer is not called for an entry that already holds the result of
\* an earlier call.
C15_NoRetries ==
    [][/\ Len(files') = Len(files) =>
            \A i \in DOMAIN files :
                files[i].status = "error" =>
                    files'[i].status \notin {"pending", "processing"}
       /\ \A k \in DOMAIN tasks :
            CallsSynthesizer(k) =>
               \A i \in DOMAIN files :
                   files[i].id = tasks[k].id => files[i].output = Null
      ]_vars

\* C19: no two entries of the upload list have the same id.
C19_UniqueIds ==
    \A i, j \in DOMAIN files : files[i].id = files[j].id => i = j

\* The cursor a block starts from, after the check at the top of the loop.
CursorAtBlock == IF yPos > 270 THEN 20 ELSE yPos
PageAtBlock == IF yPos > 270 THEN pageCount + 1 ELSE pageCount

\* The block placed from cursor y on page p: the page is the current one, the
\* last placement is on it at cursor y + pad, and the cursor ends at `after`.
PlacedAt(p, y, after) ==
    /\ pageCount' = p
    /\ drawn'[Len(drawn')].page = p
    /\ drawn'[Len(drawn')].y = y
    /\ yPos' = after

\* C16: an equation (extent lines x 5 + 6) and a diagram (extent caption
\* lines x 4 + 5 plus the image height) that would pass 280 from the cursor
\* are placed from cursor 20 of a new page, otherwise from the cursor; a block
\* that fits on an empty page is never drawn below 280.
C16_EquationDiagramChecked ==
    [][/\ Equation =>
            LET h == data[idx].lines * 5 IN
            /\ IF CursorAtBlock + h + 6 > 280
               THEN PlacedAt(PageAtBlock + 1, 20 + 3, 20 + h + 6)
               ELSE PlacedAt(PageAtBlock, CursorAtBlock + 3, CursorAtBlock + h + 6)
            /\ (20 + h + 6 <= 280) =>
                  /\ drawn'[Len(drawn')].y + drawn'[Len(drawn')].h <= 280
                  /\ yPos' <= 280
       /\ DiagramBegin =>
            LET c == (data[idx].lines * 4) + 5
                g == SvgHeight(data[idx].svg.attrs)
            IN
            /\ IF CursorAtBlock + c + g > 280
               THEN PlacedAt(PageAtBlock + 1, 20, 20 + c)
               ELSE PlacedAt(PageAtBlock, CursorAtBlock, CursorAtBlock + c)
            /\ (20 + c + g <= 280) => yPos' + g <= 280
       /\ DiagramLoaded(TRUE) =>
            LET g == SvgHeight(data[idx].svg.attrs) IN
            /\ drawn'[Len(drawn')].what = "image"
            /\ drawn'[Len(drawn')].page = pageCount
            /\ drawn'[Len(drawn')].y = yPos
            /\ drawn'[Len(drawn')].h = g
            /\ (20 + ((data[idx].lines * 4) + 5) + g <= 280) => yPos + g <= 280
      ]_vars

\* An equation that follows a paragraph ending at cursor 270 was moved to
\* the top of page 2 by its own check (the loop-top check does not fire at
\* 270), and the document was saved.
C16_Witness ==
    /\ rpc = "saved" /\ Len(data) >= 2
    /\ data[1].type = "paragraph" /\ data[1].lines = 45
    /\ data[2].type = "equation"
    /\ \E j \in DOMAIN drawn :
          /\ drawn[j].item = 2 /\ drawn[j].page = 2 /\ drawn[j].y = 23
          /\ drawn[j - 1].page = 1

\* C17: placements follow document order; the page of successive placements
\* never decreases and grows by one page at a time; the first placement on a
\* new page is at the top margin 20 (an equation 3 below it, its padding);
\* nothing lies on a page after the current one.
C17_SinglePass ==
    /\ \A j \in DOMAIN drawn :
          /\ drawn[j].page >= 1 /\ drawn[j].page <= pageCount
          /\ j > 1 =>
                /\ drawn[j].item >= drawn[j - 1].item
                /\ drawn[j].page >= drawn[j - 1].page
                /\ drawn[j].page <= drawn[j - 1].page + 1
                /\ drawn[j].page > drawn[j - 1].page =>
                      drawn[j].y = IF data[drawn[j].item].type = "equation"
                                   THEN 20 + 3 ELSE 20
    /\ drawn # <<>> => pageCount <= drawn[Len(drawn)].page + 1

\* A saved document of three pages: one page break at the top of the loop
\* and one more, with something placed on every page.
C17_Witness ==
    /\ rpc = "saved" /\ pageCount = 3
    /\ \A p \in 1..3 : \E j \in DOMAIN drawn : drawn[j].page = p

\* isProcessing is true exactly while a launched task has not settled, and
\* an entry is processing only then.
JoinedBatch(fs, ts, processing) ==
    /\ processing <=> \E k \in DOMAIN ts : Running(ts[k])
    /\ \A i \in DOMAIN fs : fs[i].status = "processing" => processing

\* C18: a convert trigger launches one running task for every pending entry;
\* isProcessing is true from then until every launched task has completed or
\* failed; a processing entry implies isProcessing, so that no entry is
\* processing once isProcessing is false again, which happens in the step
\* that settles the last running task.
C18_BatchJoined ==
    [][/\ JoinedBatch(files, tasks, isProcessing)
       /\ JoinedBatch(files', tasks', isProcessing')
       /\ ConvertTriggered =>
            /\ Len(tasks') = Cardinality({i \in DOMAIN files : files[i].status = "pending"})
            /\ \A k \in DOMAIN tasks' : Running(tasks'[k])
            /\ \A i \in DOMAIN files :
                  files[i].status = "pending" =>
                     /\ files'[i].status = "processing"
                     /\ \E k \in DOMAIN tasks' : tasks'[k].id = files[i].id
       /\ (isProcessing /\ ~isProcessing') =>
            /\ Cardinality({k \in DOMAIN tasks : Running(tasks[k])}) = 1
            /\ \A i \in DOMAIN files' : files'[i].status # "processing"
      ]_vars

\* In a batch of two, one task has completed and the other is still running:
\* isProcessing is still true and the second file is processing.
C18_Witness ==
    /\ isProcessing
    /\ \E k1, k2 \in DOMAIN tasks :
          /\ tasks[k1].pc = "completed" /\ Running(tasks[k2])
          /\ \E i, j \in DOMAIN files :
                /\ files[i].id = tasks[k1].id /\ files[i].status = "completed"
                /\ files[j].id = tasks[k2].id /\ files[j].status = "processing"

\* Task k is in flight and its file was removed: it is the only task of its
\* identity and no entry of that identity is processing (an entry leaves
\* processing only by such a task settling or by removal).
Stale(k) ==
    /\ Running(tasks[k])
    /\ \A j \in DOMAIN tasks : tasks[j].id = tasks[k].id => j = k
    /\ \A i \in DOMAIN files :
          files[i].id = tasks[k].id => files[i].status # "processing"

\* C20: a step of a task whose file was removed while it was in flight
\* leaves the list as it is: nothing reappears and no entry changes.
C20_StaleTaskWritesNothing ==
    [][(tasks' # tasks) =>
         \A k \in DOMAIN tasks : (Stale(k) /\ TaskStep(k)) => files' = files
      ]_vars

(***************************************************************************)
(* C21                                                                     *)
(***************************************************************************)
\* typeof of the payload a request for the given format stores.
KindOf(format) == IF format = "pdf" THEN "object" ELSE "string"

Less(a, b) == ~IsNaN(a) /\ ~IsNaN(b) /\ a < b

\* C22: the title is drawn at 20 and the first block starts at 40; when a
\* top-level block begins placement, after the check at the top of the loop,
\* the cursor is a number from 20 to 270; and within one call the cursor
\* never decreases except through a page break, which sets it to 20.
C22_CursorInvariant ==
    [][/\ rpc # "idle" =>
            /\ drawn[1].what = "title" /\ drawn[1].y = 20 /\ drawn[1].page = 1
       /\ (rpc = "loop" /\ idx = 1) => yPos = 40
       /\ (rpc = "loop" /\ idx <= Len(data)) =>
            /\ ~IsNaN(CursorAtBlock)
            /\ 20 <= CursorAtBlock /\ CursorAtBlock <= 270
       /\ (run' = run /\ pageCount' = pageCount) => ~Less(yPos', yPos)
       /\ (run' = run /\ pageCount' # pageCount) =>
            /\ pageCount' > pageCount
            /\ ~Less(yPos', 20)
      ]_vars

====
